---- MODULE Spec2Model ----
(***************************************************************************)
(* Session provisioning and bot dispatch of the azuredebug voice server:   *)
(* the HTTP endpoints of main.py (POST /connect, POST /offer, GET /health) *)
(* and the bot task of bot.py.  Strings are sequences of one-character     *)
(* strings so that split/strip/lower are computed, not assumed.            *)
(***************************************************************************)
EXTENDS Integers, Sequences, FiniteSets, TLC

VARIABLES env, request, response, background_tasks, provisioner, rooms,
          connection, bot, events, queued, processed, health

vars == <<env, request, response, background_tasks, provisioner, rooms,
          connection, bot, events, queued, processed, health>>

----------------------------------------------------------------------------
(* Bounds of the model. *)

\* number of HTTP requests (and so of sessions) the server receives
MaxReqs == 2

\* number of client-connected events the transport delivers to one session
MaxEvents == 2

\* longest TRANSPORT_TYPE value enumerated character by character
MaxLen == 4

Reqs == 1..MaxReqs

----------------------------------------------------------------------------
(* Character strings. *)

Str_daily == <<"d", "a", "i", "l", "y">>

Str_smallwebrtc == <<"s", "m", "a", "l", "l", "w", "e", "b", "r", "t", "c">>

Str_webrtc == <<"w", "e", "b", "r", "t", "c">>

\* "Daily", as a client may spell it
Str_Daily == <<"D", "a", "i", "l", "y">>

\* "SmallWebRTC"
Str_SmallWebRTC == <<"S", "m", "a", "l", "l", "W", "e", "b", "R", "T", "C">>

\* "Daily, SmallWebRTC"
Str_DailySmall == Str_Daily \o <<",", " ">> \o Str_SmallWebRTC

\* "smallwebrtc,webrtc"
Str_SmallWeb == Str_smallwebrtc \o <<",">> \o Str_webrtc

\* the characters str.strip() removes
Whitespace == {" ", "\t", "\n"}

\* str.lower() on one character
LowerChar(c) ==
    CASE c = "A" -> "a"
      [] c = "C" -> "c"
      [] c = "D" -> "d"
      [] c = "R" -> "r"
      [] c = "S" -> "s"
      [] c = "T" -> "t"
      [] c = "W" -> "w"
      [] OTHER -> c

\* str.lower()
Lower(s) == [i \in 1..Len(s) |-> LowerChar(s[i])]

\* str.lstrip() in place of str.strip(): trailing whitespace stays
Strip_left(s) ==
    LET keep == {i \in 1..Len(s) : s[i] \notin Whitespace}
    IN  IF keep = {} THEN <<>>
        ELSE SubSeq(s, CHOOSE i \in keep : \A j \in keep : i <= j, Len(s))

\* str.strip(): drop leading and trailing whitespace
Strip(s) ==
    LET keep == {i \in 1..Len(s) : s[i] \notin Whitespace}
    IN  IF keep = {} THEN <<>>
        ELSE LET lo == CHOOSE i \in keep : \A j \in keep : i <= j
                 hi == CHOOSE i \in keep : \A j \in keep : j <= i
             IN  SubSeq(s, lo, hi)

RECURSIVE Split(_)
\* str.split(","): the pieces between commas, empty pieces included
Split(s) ==
    LET commas == {i \in 1..Len(s) : s[i] = ","}
    IN  IF commas = {} THEN <<s>>
        ELSE LET c == CHOOSE i \in commas : \A j \in commas : i <= j
             IN  <<SubSeq(s, 1, c - 1)>> \o Split(SubSeq(s, c + 1, Len(s)))

\* os.getenv(name, default) on a variable that may be unset
Getenv(v, default) == IF v.set THEN v.value ELSE default

\* the list comprehension of get_enabled_transports, on the raw value
ParseTransports(raw_value) ==
    LET items == Split(raw_value)
        kept  == SelectSeq(items, LAMBDA item : Strip(item) # <<>>)
    IN  [i \in 1..Len(kept) |-> Lower(Strip(kept[i]))]

get_enabled_transports ==
    LET raw_value  == Getenv(env.TRANSPORT_TYPE, Str_daily)
        transports == ParseTransports(raw_value)
    IN  IF transports # <<>> THEN transports ELSE <<Str_daily>>

get_default_transport == get_enabled_transports[1]

\* the membership test left out
InList_any(x, list) == TRUE

\* "x in list"
InList(x, list) == \E i \in 1..Len(list) : list[i] = x

----------------------------------------------------------------------------
(* Requests and responses. *)

NoRequest == [kind |-> "none", has_type |-> FALSE, transport_type |-> <<>>, keys |-> {}]

NoResponse == [status |-> 0, detail |-> "", payload |-> "none", sent |-> FALSE]

NoProvision == [calls |-> 0, room_calls |-> 0, token_calls |-> 0, error |-> "none"]

NoConnection == [created |-> FALSE, initialized |-> FALSE, answer |-> "none"]

NoBot == [state |-> "none", exit |-> "none"]

\* transport_type values a client sends to /connect
RequestedTypes == {Str_Daily, Str_SmallWebRTC, Str_webrtc}

\* bodies of POST /connect: transport_type present or not
ConnectBodies ==
    {[kind |-> "connect", has_type |-> FALSE, transport_type |-> <<>>, keys |-> {}]}
    \cup {[kind |-> "connect", has_type |-> TRUE, transport_type |-> t, keys |-> {}]
            : t \in RequestedTypes}

\* bodies of POST /offer: any subset of the two keys the handler looks for
OfferBodies ==
    {[kind |-> "offer", has_type |-> FALSE, transport_type |-> <<>>, keys |-> k]
        : k \in SUBSET {"sdp", "type"}}

\* what the room service does with one provisioning attempt
ProvisionOutcomes == {"ok", "room_error", "token_error", "dispatch_error"}

\* what SmallWebRTCConnection does with one offer: initialize() raising, or the
\* value get_answer() returns (None, an empty mapping, an SDP answer)
ConnectionOutcomes == {"init_error", "absent", "empty", "sdp"}

\* the environments the server is deployed with: TRANSPORT_TYPE unset and no
\* DAILY_API_KEY; "Daily, SmallWebRTC" with a key; "smallwebrtc,webrtc" with
\* a key
Deployments ==
    {[TRANSPORT_TYPE |-> [set |-> FALSE, value |-> <<>>], DAILY_API_KEY |-> FALSE],
     [TRANSPORT_TYPE |-> [set |-> TRUE, value |-> Str_DailySmall], DAILY_API_KEY |-> TRUE],
     [TRANSPORT_TYPE |-> [set |-> TRUE, value |-> Str_SmallWeb], DAILY_API_KEY |-> TRUE]}

\* the two frames in the wrong order
GreetingFrames_swapped == <<"EndFrame", "TTSSpeakFrame">>

\* the frames on_client_connected hands to task.queue_frames, in list order
GreetingFrames == <<"TTSSpeakFrame", "EndFrame">>

Init ==
    /\ env \in Deployments
    /\ request = [r \in Reqs |-> NoRequest]
    /\ response = [r \in Reqs |-> NoResponse]
    /\ background_tasks = [r \in Reqs |-> 0]
    /\ provisioner = [r \in Reqs |-> NoProvision]
    /\ rooms = [r \in Reqs |-> [room |-> FALSE, token |-> FALSE]]
    /\ connection = [r \in Reqs |-> NoConnection]
    /\ bot = [r \in Reqs |-> NoBot]
    /\ events = [r \in Reqs |-> 0]
    /\ queued = [r \in Reqs |-> <<>>]
    /\ processed = [r \in Reqs |-> 0]
    /\ health = <<>>

----------------------------------------------------------------------------
(* Room provisioner. *)

\* a provisioner that tries create_room a second time when it is rejected
create_daily_room_and_token_retry(outcome) ==
    IF ~env.DAILY_API_KEY
    THEN [raised |-> TRUE, error |-> "no_api_key", room_calls |-> 0, token_calls |-> 0,
          room |-> FALSE, token |-> FALSE]
    ELSE IF outcome = "room_error"
    THEN [raised |-> TRUE, error |-> "room_error", room_calls |-> 2, token_calls |-> 0,
          room |-> FALSE, token |-> FALSE]
    ELSE IF outcome = "token_error"
    THEN [raised |-> TRUE, error |-> "token_error", room_calls |-> 1, token_calls |-> 1,
          room |-> TRUE, token |-> FALSE]
    ELSE [raised |-> FALSE, error |-> "none", room_calls |-> 1, token_calls |-> 1,
          room |-> TRUE, token |-> TRUE]

\* create_daily_room_and_token: one call, one create_room, one get_token; the
\* result says how far it got and which exception, if any, left it
create_daily_room_and_token(outcome) ==
    IF ~env.DAILY_API_KEY
    THEN [raised |-> TRUE, error |-> "no_api_key", room_calls |-> 0, token_calls |-> 0,
          room |-> FALSE, token |-> FALSE]
    ELSE IF outcome = "room_error"
    THEN [raised |-> TRUE, error |-> "room_error", room_calls |-> 1, token_calls |-> 0,
          room |-> FALSE, token |-> FALSE]
    ELSE IF outcome = "token_error"
    THEN [raised |-> TRUE, error |-> "token_error", room_calls |-> 1, token_calls |-> 1,
          room |-> TRUE, token |-> FALSE]
    ELSE [raised |-> FALSE, error |-> "none", room_calls |-> 1, token_calls |-> 1,
          room |-> TRUE, token |-> TRUE]

----------------------------------------------------------------------------
(* POST /connect. *)

\* request_data.get("transport_type", get_default_transport()).lower()
ResolvedType(body) ==
    Lower(IF body.has_type THEN body.transport_type ELSE get_default_transport)

\* the check of line 109 left out
IsRoomTransport_any(transport_type) == TRUE

\* the check of line 109: only "daily" sessions are provisioned by /connect
IsRoomTransport(transport_type) == transport_type = Str_daily

HttpError(code, text) == [status |-> code, detail |-> text, payload |-> "none", sent |-> FALSE]

Connect(r, body, outcome) ==
    /\ request[r].kind = "none"
    /\ request' = [request EXCEPT ![r] = body]
    /\ LET transport_type == ResolvedType(body)
           p == create_daily_room_and_token(outcome)
       IN  IF ~InList(transport_type, get_enabled_transports)
           THEN /\ response' = [response EXCEPT ![r] = HttpError(400, "non disponible")]
                /\ UNCHANGED <<background_tasks, provisioner, rooms>>
           ELSE IF ~IsRoomTransport(transport_type)
           THEN /\ response' = [response EXCEPT ![r] = HttpError(400, "utilisez /offer")]
                /\ UNCHANGED <<background_tasks, provisioner, rooms>>
           ELSE /\ provisioner' = [provisioner EXCEPT ![r] =
                        [calls |-> @.calls + 1,
                         room_calls |-> @.room_calls + p.room_calls,
                         token_calls |-> @.token_calls + p.token_calls,
                         error |-> p.error]]
                /\ rooms' = [rooms EXCEPT ![r] = [room |-> p.room, token |-> p.token]]
                /\ IF p.raised \/ outcome = "dispatch_error"
                   THEN /\ response' = [response EXCEPT ![r] =
                                HttpError(500, "echec de creation de la room")]
                        /\ UNCHANGED background_tasks
                   ELSE /\ background_tasks' = [background_tasks EXCEPT ![r] = @ + 1]
                        /\ response' = [response EXCEPT ![r] =
                                [status |-> 200, detail |-> "bot lance",
                                 payload |-> "room_and_token", sent |-> FALSE]]
    /\ UNCHANGED <<env, connection, bot, events, queued, processed, health>>

----------------------------------------------------------------------------
(* POST /offer. *)

\* "and" in place of "or": one key is enough
MissingFields_both(keys) == "sdp" \notin keys /\ "type" \notin keys

\* "answer is None" in place of "not answer"
NoAnswer_none(answer) == answer = "absent"

\* "sdp" not in request or "type" not in request
MissingFields(keys) == "sdp" \notin keys \/ "type" \notin keys

\* "not answer": None and the empty mapping are both falsy
NoAnswer(answer) == answer \in {"absent", "empty"}

Offer(r, body, outcome) ==
    /\ request[r].kind = "none"
    /\ request' = [request EXCEPT ![r] = body]
    /\ IF ~InList(Str_smallwebrtc, get_enabled_transports)
       THEN /\ response' = [response EXCEPT ![r] = HttpError(400, "smallwebrtc non active")]
            /\ UNCHANGED <<background_tasks, connection>>
       ELSE IF MissingFields(body.keys)
       THEN /\ response' = [response EXCEPT ![r] = HttpError(400, "offre invalide")]
            /\ UNCHANGED <<background_tasks, connection>>
       ELSE IF outcome = "init_error"
       THEN /\ connection' = [connection EXCEPT ![r] =
                    [created |-> TRUE, initialized |-> FALSE, answer |-> "none"]]
            /\ response' = [response EXCEPT ![r] = HttpError(500, "internal server error")]
            /\ UNCHANGED background_tasks
       ELSE /\ connection' = [connection EXCEPT ![r] =
                    [created |-> TRUE, initialized |-> TRUE, answer |-> outcome]]
            /\ background_tasks' = [background_tasks EXCEPT ![r] = @ + 1]
            /\ IF NoAnswer(outcome)
               THEN response' = [response EXCEPT ![r] = HttpError(500, "pas de reponse WebRTC")]
               ELSE response' = [response EXCEPT ![r] =
                        [status |-> 200, detail |-> "answer", payload |-> outcome,
                         sent |-> FALSE]]
    /\ UNCHANGED <<env, provisioner, rooms, bot, events, queued, processed, health>>

----------------------------------------------------------------------------
(* GET /health. *)

HealthCheck ==
    /\ health' = get_enabled_transports
    /\ UNCHANGED <<env, request, response, background_tasks, provisioner, rooms,
                   connection, bot, events, queued, processed>>

----------------------------------------------------------------------------
(* The framework around the handlers: the response goes out when the handler *)
(* returns or raises, and the tasks added to the injected BackgroundTasks    *)
(* run after the response of a handler that returned.                        *)

\* a request that was answered: its body and the handler's locals are gone
ClosedRequest == [kind |-> "closed", has_type |-> FALSE, transport_type |-> <<>>, keys |-> {}]

SendResponse(r) ==
    /\ response[r].status # 0
    /\ ~response[r].sent
    /\ response' = [response EXCEPT ![r].sent = TRUE]
    /\ request' = [request EXCEPT ![r] = ClosedRequest]
    /\ provisioner' = [provisioner EXCEPT ![r] = NoProvision]
    /\ UNCHANGED <<env, background_tasks, rooms, connection,
                   bot, events, queued, processed, health>>

\* the bot started as a detached task of its own: it runs whatever the handler does next
RunnableTasks_detached(r) == background_tasks[r]

\* the bot awaited inside the handler: it runs before the response goes out
BotMayStart_inline(r) == TRUE

\* background_tasks.add_task(bot, runner_args): the tasks the framework runs
\* for request r, none when the handler raised
RunnableTasks(r) == IF response[r].status = 200 THEN background_tasks[r] ELSE 0

\* add_task defers the bot until the response has been sent
BotMayStart(r) == response[r].sent

----------------------------------------------------------------------------
(* bot.py: the bot task of one session. *)

\* bot(): entered by the framework, awaiting create_transport
BotStart(r) ==
    /\ bot[r].state = "none"
    /\ RunnableTasks(r) > 0
    /\ BotMayStart(r)
    /\ bot' = [bot EXCEPT ![r] = [state |-> "setup", exit |-> "none"]]
    /\ UNCHANGED <<env, request, response, background_tasks, provisioner, rooms,
                   connection, events, queued, processed, health>>

\* run_bot up to "await runner.run(task)": pipeline built, handler registered
RunBot(r) ==
    /\ bot[r].state = "setup"
    /\ bot' = [bot EXCEPT ![r].state = "running"]
    /\ UNCHANGED <<env, request, response, background_tasks, provisioner, rooms,
                   connection, events, queued, processed, health>>

\* create_transport or the TTS constructor raising: the task ends before running
BotSetupError(r) ==
    /\ bot[r].state = "setup"
    /\ bot' = [bot EXCEPT ![r] = [state |-> "terminated", exit |-> "raised"]]
    /\ UNCHANGED <<env, request, response, background_tasks, provisioner, rooms,
                   connection, events, queued, processed, health>>

\* on_client_connected: task.queue_frames(GreetingFrames), kept in list order
ClientConnected(r) ==
    /\ bot[r].state = "running"
    /\ events[r] < MaxEvents
    /\ events' = [events EXCEPT ![r] = @ + 1]
    /\ queued' = [queued EXCEPT ![r] =
            @ \o [k \in 1..Len(GreetingFrames) |->
                    [frame |-> GreetingFrames[k], event |-> events[r] + 1]]]
    /\ UNCHANGED <<env, request, response, background_tasks, provisioner, rooms,
                   connection, bot, processed, health>>

\* a supervisor that starts the bot again when it exits
Terminate_restart(r, how) ==
    /\ bot' = [bot EXCEPT ![r] = [state |-> "setup", exit |-> how]]
    /\ events' = [events EXCEPT ![r] = 0]
    /\ queued' = [queued EXCEPT ![r] = <<>>]
    /\ processed' = [processed EXCEPT ![r] = 0]

\* run_bot returns or raises: the session's pipeline, its queue and its
\* transport go with the task that owned them
Terminate(r, how) ==
    /\ bot' = [bot EXCEPT ![r] = [state |-> "terminated", exit |-> how]]
    /\ events' = [events EXCEPT ![r] = 0]
    /\ queued' = [queued EXCEPT ![r] = <<>>]
    /\ processed' = [processed EXCEPT ![r] = 0]

\* runner.run(task): the pipeline takes the next queued frame; EndFrame ends it
ProcessFrame(r) ==
    /\ bot[r].state = "running"
    /\ processed[r] < Len(queued[r])
    /\ IF queued[r][processed[r] + 1].frame = "EndFrame"
       THEN Terminate(r, "returned")
       ELSE /\ processed' = [processed EXCEPT ![r] = @ + 1]
            /\ UNCHANGED <<bot, events, queued>>
    /\ UNCHANGED <<env, request, response, background_tasks, provisioner, rooms,
                   connection, health>>

\* ways runner.run(task) ends without an EndFrame
StopReasons == {"idle_timeout", "interrupt", "exception"}

\* runner.run(task) left by idle timeout, handled interrupt or an exception
PipelineStop(r, why) ==
    /\ bot[r].state = "running"
    /\ Terminate(r, IF why = "exception" THEN "raised" ELSE "returned")
    /\ UNCHANGED <<env, request, response, background_tasks, provisioner, rooms,
                   connection, health>>

----------------------------------------------------------------------------

\* the endpoints and the bot tasks
Next ==
    \/ \E r \in Reqs, b \in ConnectBodies, o \in ProvisionOutcomes : Connect(r, b, o)
    \/ \E r \in Reqs, b \in OfferBodies, o \in ConnectionOutcomes : Offer(r, b, o)
    \/ \E r \in Reqs : SendResponse(r)
    \/ \E r \in Reqs : BotStart(r)
    \/ \E r \in Reqs : RunBot(r)
    \/ \E r \in Reqs : BotSetupError(r)
    \/ \E r \in Reqs : ClientConnected(r)
    \/ \E r \in Reqs : ProcessFrame(r)
    \/ \E r \in Reqs, w \in StopReasons : PipelineStop(r, w)

Spec == Init /\ [][Next]_vars

\* The event loop runs every task that is ready: a background task whose
\* response has gone out is started, and a running pipeline takes the frames
\* queued for it.
FairSpec ==
    /\ Spec
    /\ \A r \in Reqs : WF_vars(SendResponse(r))
    /\ \A r \in Reqs : WF_vars(BotStart(r))
    /\ \A r \in Reqs : WF_vars(ProcessFrame(r))

----------------------------------------------------------------------------
(* get_enabled_transports as a function of TRANSPORT_TYPE alone: the server  *)
(* is started with one value out of the enumerated ones and asked /health.  *)

\* characters of the enumerated values: a capital, a small letter, two kinds
\* of whitespace and the separator
Alphabet == {"A", "d", " ", "\t", ","}

\* every string over Alphabet of length at most MaxLen
EnumeratedValues == UNION {[1..n -> Alphabet] : n \in 0..MaxLen}

ParseConfigs ==
    {[set |-> FALSE, value |-> <<>>], [set |-> TRUE, value |-> Str_DailySmall]}
    \cup {[set |-> TRUE, value |-> v] : v \in EnumeratedValues}

ParseInit ==
    /\ env \in [TRANSPORT_TYPE : ParseConfigs, DAILY_API_KEY : {TRUE}]
    /\ request = [r \in Reqs |-> NoRequest]
    /\ response = [r \in Reqs |-> NoResponse]
    /\ background_tasks = [r \in Reqs |-> 0]
    /\ provisioner = [r \in Reqs |-> NoProvision]
    /\ rooms = [r \in Reqs |-> [room |-> FALSE, token |-> FALSE]]
    /\ connection = [r \in Reqs |-> NoConnection]
    /\ bot = [r \in Reqs |-> NoBot]
    /\ events = [r \in Reqs |-> 0]
    /\ queued = [r \in Reqs |-> <<>>]
    /\ processed = [r \in Reqs |-> 0]
    /\ health = <<>>

ParseNext == HealthCheck

ParseSpec == ParseInit /\ [][ParseNext]_vars

----------------------------------------------------------------------------
(* Properties. *)

\* the enabled transports as a set of names, read off the list by position
EnabledSet == {get_enabled_transports[i] : i \in DOMAIN get_enabled_transports}

\* the transport type /connect resolves for the request of r
RequestedOrDefault(r) ==
    Lower(IF request[r].has_type THEN request[r].transport_type
          ELSE get_enabled_transports[1])

\* request r asks for a transport that is not enabled
Disallowed(r) ==
    \/ request[r].kind = "connect" /\ RequestedOrDefault(r) \notin EnabledSet
    \/ request[r].kind = "offer" /\ Str_smallwebrtc \notin EnabledSet

\* nothing was provisioned, created or scheduled for request r
NoSideEffects(r) ==
    /\ provisioner[r].calls = 0
    /\ rooms[r] = [room |-> FALSE, token |-> FALSE]
    /\ background_tasks[r] = 0
    /\ bot[r] = NoBot

\* C1: a request whose transport type is not in the enabled set (/connect with
\* a resolved type outside the set, /offer when smallwebrtc is outside it) gets
\* a 400 response and the room provisioner is never called for it.
C1_DisallowedTransportRejected ==
    \A r \in Reqs :
        Disallowed(r) =>
            /\ response[r].status = 400
            /\ provisioner[r].calls = 0
            /\ rooms[r] = [room |-> FALSE, token |-> FALSE]

C1_Witness ==
    /\ \E r \in Reqs :
        /\ request[r].kind = "connect"
        /\ request[r].transport_type = Str_SmallWebRTC
        /\ EnabledSet = {Str_daily}
        /\ response[r].status = 400
    /\ \E r \in Reqs :
        /\ request[r].kind = "offer"
        /\ request[r].keys = {"sdp", "type"}
        /\ Disallowed(r)
        /\ response[r].status = 400

\* C2: POST /connect whose resolved transport type is not "daily" (requested
\* explicitly, or the first enabled entry when the request names none) gets a
\* 400 response and has no side effect: no room, no token, no bot task.
C2_ConnectOnlyDaily ==
    \A r \in Reqs :
        (request[r].kind = "connect" /\ RequestedOrDefault(r) # Str_daily) =>
            /\ response[r].status = 400
            /\ NoSideEffects(r)

C2_Witness ==
    /\ \E r \in Reqs :
        /\ request[r].kind = "connect"
        /\ ~request[r].has_type
        /\ get_enabled_transports[1] = Str_smallwebrtc
        /\ response[r].status = 400
    /\ \E r \in Reqs :
        /\ request[r].kind = "connect"
        /\ request[r].transport_type = Str_webrtc
        /\ Str_webrtc \in EnabledSet
        /\ response[r].status = 400

\* the provisioner failed for request r
ProvisionFailed(r) ==
    /\ request[r].kind = "connect"
    /\ provisioner[r].error \in {"no_api_key", "room_error", "token_error"}

\* C3, as claimed: when provisioning fails the response is a 500, no bot task
\* is scheduled, nothing is left behind, and one attempt was made.
C3_Claimed ==
    \A r \in Reqs :
        ProvisionFailed(r) =>
            /\ response[r].status = 500
            /\ background_tasks[r] = 0 /\ bot[r] = NoBot
            /\ rooms[r] = [room |-> FALSE, token |-> FALSE]
            /\ provisioner[r].calls = 1
            /\ provisioner[r].room_calls <= 1 /\ provisioner[r].token_calls <= 1

\* C3, amended: when provisioning fails the response is a 500, no bot task is
\* scheduled, no token exists and one attempt was made; a room is left behind
\* exactly when the failure was the token's, after the room was created.
C3_ProvisionFailure ==
    \A r \in Reqs :
        ProvisionFailed(r) =>
            /\ response[r].status = 500
            /\ background_tasks[r] = 0 /\ bot[r] = NoBot
            /\ ~rooms[r].token
            /\ rooms[r].room <=> provisioner[r].error = "token_error"
            /\ provisioner[r].calls = 1
            /\ provisioner[r].room_calls <= 1 /\ provisioner[r].token_calls <= 1

C3_Witness ==
    /\ \E r \in Reqs :
        /\ provisioner[r].error = "token_error"
        /\ rooms[r].room
        /\ response[r].status = 500
    /\ \E r \in Reqs :
        /\ provisioner[r].error = "room_error"
        /\ response[r].status = 500

\* C4: the bot task starts only after the success response has been sent, and
\* a response that has been sent never changes, whatever the bot task does.
C4_ResponseBeforeBot ==
    [][\A r \in Reqs :
        /\ response[r].sent => response'[r] = response[r]
        /\ bot'[r].state # "none" =>
            /\ response'[r].sent
            /\ response'[r].status = 200
            /\ response'[r].payload # "none"]_vars

C4_Witness ==
    \E r \in Reqs :
        /\ bot[r] = [state |-> "terminated", exit |-> "raised"]
        /\ response[r] = [status |-> 200, detail |-> "bot lance",
                          payload |-> "room_and_token", sent |-> TRUE]

\* C5: in every session, each EndFrame in the frames queued for the pipeline
\* has the TTSSpeakFrame of the same client-connected event before it.
C5_GreetingBeforeEnd ==
    \A r \in Reqs : \A i \in 1..Len(queued[r]) :
        queued[r][i].frame = "EndFrame" =>
            \E j \in 1..(i - 1) :
                /\ queued[r][j].frame = "TTSSpeakFrame"
                /\ queued[r][j].event = queued[r][i].event

C5_Witness ==
    \E r, q \in Reqs :
        /\ r # q
        /\ events[r] = 2 /\ Len(queued[r]) = 4 /\ processed[r] = 1
        /\ queued[r][4] = [frame |-> "EndFrame", event |-> 2]
        /\ events[q] = 1 /\ Len(queued[q]) = 2

\* request r is an offer that passes both checks of the handler
ValidOffer(r) ==
    /\ request[r].kind = "offer"
    /\ Str_smallwebrtc \in EnabledSet
    /\ request[r].keys = {"sdp", "type"}

\* C6: for a valid offer, a success response carries the connection's answer
\* and that answer is not empty; an empty or absent answer gives a 500.
C6_AnswerNonEmpty ==
    \A r \in Reqs :
        ValidOffer(r) =>
            /\ response[r].status = 200 =>
                /\ connection[r].answer = "sdp"
                /\ response[r].payload = connection[r].answer
            /\ connection[r].answer \in {"absent", "empty"} => response[r].status = 500

C6_Witness ==
    /\ \E r \in Reqs :
        ValidOffer(r) /\ connection[r].answer = "empty" /\ response[r].status = 500
    /\ \E r \in Reqs :
        ValidOffer(r) /\ response[r].status = 200 /\ response[r].payload = "sdp"

\* C7: an offer without "sdp" or without "type" gets a 400 response, no
\* connection object and no bot task; the enabled-transport check comes first.
C7_MissingFieldsRejected ==
    \A r \in Reqs :
        (request[r].kind = "offer" /\ request[r].keys # {"sdp", "type"}) =>
            /\ response[r].status = 400
            /\ response[r].detail =
                IF Str_smallwebrtc \in EnabledSet THEN "offre invalide"
                ELSE "smallwebrtc non active"
            /\ connection[r] = NoConnection
            /\ background_tasks[r] = 0 /\ bot[r] = NoBot

C7_Witness ==
    /\ \E r \in Reqs :
        /\ request[r].kind = "offer" /\ request[r].keys = {"sdp"}
        /\ Str_smallwebrtc \in EnabledSet
        /\ response[r].status = 400
    /\ \E r \in Reqs :
        /\ request[r].kind = "offer" /\ request[r].keys = {"type"}
        /\ response[r].status = 400

\* the raw TRANSPORT_TYPE value the server reads
RawValue == IF env.TRANSPORT_TYPE.set THEN env.TRANSPORT_TYPE.value ELSE Str_daily

\* positions that delimit the comma-separated items of RawValue
Delimiters == {0, Len(RawValue) + 1} \cup {i \in 1..Len(RawValue) : RawValue[i] = ","}

\* the delimiter that closes the item opened by delimiter a
NextDelimiter(a) == CHOOSE b \in Delimiters : b > a /\ \A c \in Delimiters : c > a => b <= c

\* the non-whitespace positions of the item opened by delimiter a
Inked(a) == {i \in (a + 1)..(NextDelimiter(a) - 1) : RawValue[i] \notin Whitespace}

\* the delimiters that open a non-blank item
NonBlankItems == {a \in Delimiters : a <= Len(RawValue) /\ Inked(a) # {}}

\* the k-th non-blank item, trimmed and lower-cased, read off RawValue by position
ExpectedItem(k) ==
    LET a  == CHOOSE x \in NonBlankItems : Cardinality({y \in NonBlankItems : y <= x}) = k
        lo == CHOOSE i \in Inked(a) : \A j \in Inked(a) : i <= j
        hi == CHOOSE i \in Inked(a) : \A j \in Inked(a) : j <= i
    IN  [n \in 1..(hi - lo + 1) |-> LowerChar(RawValue[lo + n - 1])]

\* C8: /health reports the non-blank comma-separated items of TRANSPORT_TYPE,
\* trimmed and lower-cased, in their order ("Daily, SmallWebRTC" gives daily,
\* smallwebrtc), and ["daily"] when the value is unset, empty or all blank; the
\* list is never empty, so the default transport, its first entry, exists.
C8_EnabledTransportsParsed ==
    health # <<>> =>
        /\ Len(health) >= 1
        /\ get_default_transport = health[1]
        /\ NonBlankItems = {} => health = <<Str_daily>>
        /\ NonBlankItems # {} =>
            /\ Len(health) = Cardinality(NonBlankItems)
            /\ \A k \in 1..Len(health) : health[k] = ExpectedItem(k)
        /\ RawValue = Str_DailySmall => health = <<Str_daily, Str_smallwebrtc>>
        /\ \A k \in 1..Len(health) :
            /\ health[k] # <<>>
            /\ health[k][1] \notin Whitespace
            /\ health[k][Len(health[k])] \notin Whitespace
            /\ \A n \in 1..Len(health[k]) : health[k][n] \notin {",", "A", "C", "D", "R", "S", "T", "W"}

C8_Witness ==
    /\ env.TRANSPORT_TYPE.value = <<" ", "A", ",", "d">>
    /\ health = <<<<"a">>, <<"d">>>>

\* position of a bot task in the order Idle, Running, Terminated: a task not
\* yet invoked is idle, and it is running from its invocation to its exit
Rank(b) ==
    CASE b.state = "none" -> 0
      [] b.state = "setup" -> 1
      [] b.state = "running" -> 1
      [] b.state = "terminated" -> 2

\* an EndFrame is queued for the running pipeline of session r
EndQueued(r) ==
    /\ bot[r].state = "running"
    /\ \E i \in 1..Len(queued[r]) : queued[r][i].frame = "EndFrame"

\* C9: a bot task moves only forwards along Idle, Running, Terminated, one
\* state at a time; a terminated task stays terminated; a step of one session
\* leaves the bot and the queue of every other session alone; and once a
\* client-connected event has queued the greeting and the EndFrame, the
\* pipeline loop eventually exits.
C9_BotLifecycle ==
    /\ [][\A r \in Reqs :
            /\ Rank(bot'[r]) \in {Rank(bot[r]), Rank(bot[r]) + 1}
            /\ bot[r].state = "running" => bot'[r].state \in {"running", "terminated"}
            /\ bot[r].state = "terminated" =>
                bot'[r] = bot[r] /\ queued'[r] = queued[r]
            /\ (bot'[r] # bot[r] \/ queued'[r] # queued[r]) =>
                \A q \in Reqs \ {r} : bot'[q] = bot[q] /\ queued'[q] = queued[q]]_vars
    /\ \A r \in Reqs : EndQueued(r) ~> (bot[r].state = "terminated")

C9_Witness ==
    \E r, q \in Reqs :
        /\ r # q
        /\ bot[r] = [state |-> "terminated", exit |-> "returned"]
        /\ EndQueued(q)
        /\ processed[q] = 1

\* C10: a bot task exists only for a request whose success response was sent;
\* a success response has exactly one task behind it and an error response
\* none that ever runs; and the task of a success response is started.
C10_BotIffSuccess ==
    /\ [](\A r \in Reqs :
            /\ bot[r].state # "none" => response[r].status = 200 /\ response[r].sent
            /\ response[r].status = 200 => background_tasks[r] = 1
            /\ response[r].status \in {400, 500} => bot[r] = NoBot)
    /\ \A r \in Reqs : (response[r].status = 200) ~> (bot[r].state # "none")

C10_Witness ==
    /\ \E r \in Reqs :
        /\ connection[r].initialized
        /\ background_tasks[r] = 1
        /\ response[r].status = 500 /\ response[r].sent
    /\ \E r \in Reqs :
        /\ rooms[r].token
        /\ response[r].status = 200
        /\ bot[r].state = "running"

====
